---------------------------- MODULE Spec2Model ----------------------------
(***************************************************************************)
(* A model of the clustering engine (gen_abstraction/kmeans.rs), of the    *)
(* arena tree (solver/arena.rs) and of a stage of bin/gen_ehs.rs.          *)
(*                                                                         *)
(* Numbers.  An f32 is modelled as a fixed-point number: the integer x     *)
(* stands for x / One.  Addition, subtraction and multiplication are exact *)
(* at the sizes used here; sqrt and division round to the nearest unit, as *)
(* the f32 operations round to the nearest representable value.  NaN is a  *)
(* value of its own, compared the way partial_cmp compares it.             *)
(*                                                                         *)
(* Indices.  Cluster indices and NodeIds are 0-based as in the source; the *)
(* vectors holding them are TLA+ sequences, so vec[i] is Vec[i + 1].       *)
(* Dataset positions are written 1..n_data.                                *)
(***************************************************************************)
EXTENDS Integers, Sequences, FiniteSets, TLC

\* ------------------------------------------------------------------ bounds
\* the most centers asked of init_random
MaxCenters == 2
\* the most rng draws of one init_random call (n_restarts * n_centers)
MaxDraws == 4
\* the most rayon workers
MaxThreads == 2
\* the most iterations of fit's loop that are followed
MaxIter == 6
\* the most nodes created in an arena
MaxNodes == 3
\* the most parent and child links set in an arena
MaxLinks == 2
\* the nodes of an arena handed to a traversal
MaxTreeNodes == 4
\* the most child links in an arena handed to a traversal
MaxEdges == 3
\* the most situations of a game stage of gen_ehs
MaxBatch == 17

\* ----------------------------------------------------------------- numbers
\* 1.0 in fixed-point units; a multiple of 10 (the tenths of the data) and of
\* 60 (so that the means of up to five points are exact).
One == 10 * 60

NaN == 0 - 1

\* partial_cmp of two f32: None when either is NaN.
PartialCmp(a, b) ==
    IF a = NaN \/ b = NaN THEN "None"
    ELSE IF a < b THEN "Less"
    ELSE IF a > b THEN "Greater"
    ELSE "Equal"

\* a.partial_cmp(b).unwrap_or(Ordering::Equal)
CmpOrEqual(a, b) ==
    IF PartialCmp(a, b) = "None" THEN "Equal" ELSE PartialCmp(a, b)

RECURSIVE SqrtFloor(_, _, _)
\* the largest r with r * r <= x, by bisection of lo..hi (lo * lo <= x < hi * hi)
SqrtFloor(x, lo, hi) ==
    IF hi - lo <= 1 THEN lo
    ELSE LET mid == (lo + hi) \div 2
         IN  IF mid * mid <= x THEN SqrtFloor(x, mid, hi)
             ELSE SqrtFloor(x, lo, mid)

RECURSIVE SqrtAbove(_, _)
\* a power of two whose square exceeds x, by doubling from h
SqrtAbove(x, h) == IF h * h > x THEN h ELSE SqrtAbove(x, 2 * h)

\* f32::sqrt on the fixed-point scale: x is in units of 1/One^2, the result in
\* units of 1/One, rounded to nearest.
F32Sqrt(x) ==
    LET r == SqrtFloor(x, 0, SqrtAbove(x, 1))
    IN  IF x - r * r > r THEN r + 1 ELSE r

\* f32 division x / c of a non-negative x by a count c, rounded to nearest;
\* 0.0 / 0.0 is NaN (x is 0 whenever c is 0 here).
F32Div(x, c) ==
    IF x = NaN THEN NaN
    ELSE IF c = 0 THEN NaN
    ELSE (2 * x + c) \div (2 * c)

\* -------------------------------------------------------------- histograms
H10 == <<One, 0>>
H91 == <<(9 * One) \div 10, One \div 10>>
H01 == <<0, One>>
H19 == <<One \div 10, (9 * One) \div 10>>
H55 == <<One \div 2, One \div 2>>

\* The two well-separated pairs of the convergence property.
TwoPairs == <<H10, H91, H01, H19>>

\* The datasets a run may be given: empty, a single point, three points one
\* of which is equidistant from the other two, and the two pairs.
Datasets == { <<>>, <<H10>>, <<H10, H01, H55>>, TwoPairs }

RECURSIVE SumSq(_, _, _)
\* the loop of l2_dist from bin i on: sum += (a[i] - b[i])^2
SumSq(a, b, i) ==
    IF i > Len(a) THEN 0
    ELSE (a[i] - b[i]) * (a[i] - b[i]) + SumSq(a, b, i + 1)

\* the size of the largest dataset
MaxData == Len(TwoPairs)

\* l2_dist: the Euclidean distance of two histograms
l2_dist(a, b) == F32Sqrt(SumSq(a, b, 1))

\* ------------------------------------------------------- min_by and max_by
RECURSIVE MinByFrom(_, _, _)
\* Iterator::min_by as a fold over positions i..Len(v) with best the position
\* kept so far: the later element replaces it only when the kept one compares
\* Greater, so the first minimum is kept.
MinByFrom(v, best, i) ==
    IF i > Len(v) THEN best
    ELSE IF CmpOrEqual(v[best], v[i]) = "Greater" THEN MinByFrom(v, i, i + 1)
    ELSE MinByFrom(v, best, i + 1)

\* the position counted from 1
MinByOneBased(v) == IF Len(v) = 0 THEN "None" ELSE MinByFrom(v, 1, 2)

\* min_by(..).map(|(i, _)| i): the 0-based index, or "None" on an empty vector
MinBy(v) == IF Len(v) = 0 THEN "None" ELSE MinByFrom(v, 1, 2) - 1

RECURSIVE MaxByFrom(_, _, _)
\* Iterator::max_by: the kept element survives only when it compares Greater,
\* so the last maximum is kept.
MaxByFrom(v, best, i) ==
    IF i > Len(v) THEN best
    ELSE IF CmpOrEqual(v[best], v[i]) = "Greater" THEN MaxByFrom(v, best, i + 1)
    ELSE MaxByFrom(v, i, i + 1)

\* max_by(..).map(|(i, _)| i): the 0-based index, or "None" on an empty vector
MaxBy(v) == IF Len(v) = 0 THEN "None" ELSE MaxByFrom(v, 1, 2) - 1

\* ------------------------------------------------------------------- state
VARIABLES
    metric,         \* the dist_func handed to the engine: "l2_dist" or "nan_dist"
    dataset,        \* the dataset: a sequence of histograms, never written
    n_restarts,     \* init_random's n_restarts argument
    n_centers,      \* init_random's n_centers argument
    pc,             \* where the program is
    center_c,       \* init_random: per restart, the sampled dataset positions
    cluster_dists,  \* init_random: per restart, the average pairwise distance
    evald,          \* init_random: the restarts whose par_iter task has run
    centers,        \* Kmeans.centers
    init_centers,   \* the centers as init_random returned them
    nthreads,       \* rayon workers available to the running parallel section
    caller,         \* who called predict: "fit" or "user"
    clusters,       \* the assignment buffer
    clusters0,      \* the assignment buffer as it was when predict was called
    wpc,            \* predict: per index, the position of its task
    wmin,           \* predict: per index, the task's local min_cluster
    changed,        \* predict: the shared AtomicCell counter
    ret,            \* predict's return value
    dist_calls,     \* dist_func calls made by the running predict
    iteration,      \* fit's iteration counter
    run,            \* 1, or 2 when predict is being repeated on the same inputs
    first,          \* the first run's outcome, kept for the comparison
    nodes,          \* Arena.nodes: the sequence of Node records
    apc,            \* the arena's caller: "running", or "panicked"
    returned,       \* the NodeIds create_node has returned, in call order
    written,        \* per NodeId, the payload last given to the arena for it
    got,            \* the node the last get_node call borrowed, while borrowed
    frames,         \* the live generator frames, the outermost first
    gpc,            \* the traversal: "none", "suspended", "running", ...
    yielded,        \* the payloads the traversal has yielded, in order
    visited,        \* the NodeIds whose payloads were yielded, in order
    reads,          \* the NodeIds the traversal has passed to get_node
    batch_size,     \* gen_ehs: the number of situations of the stage
    size_per_thread, \* gen_ehs: batch_size / N_THREADS
    equity_table,   \* gen_ehs: the stage's table, slot by slot
    spawned,        \* gen_ehs: the chunks a thread was spawned for so far
    kpos,           \* gen_ehs: per thread, the k its loop is at
    oracle,         \* per slot, the equity computations stored in it
    epc,            \* gen_ehs: where the stage is
    file            \* gen_ehs: the values packed to ehs.dat

kvars == <<metric, dataset, n_restarts, n_centers, pc, center_c, cluster_dists, evald,
           centers, init_centers, nthreads, caller, clusters, clusters0, wpc,
           wmin, changed, ret, dist_calls, iteration, run, first>>

avars == <<nodes, apc, returned, written, got>>

gvars == <<frames, gpc, yielded, visited, reads>>

evars == <<batch_size, size_per_thread, equity_table, spawned, kpos, oracle,
           epc, file>>

vars == <<kvars, avars, gvars, evars>>

\* what the engine's methods leave alone, what the arena's methods do, what
\* a traversal does and what gen_ehs does
nonkmeans == <<avars, gvars, evars>>
nonarena == <<kvars, gvars, evars>>
nontraversal == <<kvars, avars, evars>>
nonehs == <<kvars, avars, gvars>>

n_data == Len(dataset)

\* vec![x; n]
Vec(x, n) == [i \in 1..n |-> x]

\* a metric that is undefined where a histogram's first bin is empty (a
\* quotient 0.0 / 0.0): NaN there, the Euclidean distance elsewhere
nan_dist(a, b) == IF a[1] = 0 \/ b[1] = 0 THEN NaN ELSE l2_dist(a, b)

\* the metric handed to the engine's methods
dist_func(a, b) ==
    IF metric = "nan_dist" THEN nan_dist(a, b) ELSE l2_dist(a, b)

\* f32 addition: NaN when either operand is
F32Add(a, b) == IF a = NaN \/ b = NaN THEN NaN ELSE a + b

\* -------------------------------------------------------------- init_random
\* the state before init_random is called with the metric m
KmeansNew(m) ==
    /\ metric = m
    /\ dataset \in Datasets
    /\ n_centers \in 0..MaxCenters
    /\ n_restarts \in 0..MaxDraws
    /\ n_restarts * n_centers <= MaxDraws
    /\ pc = "start"
    /\ center_c = <<>>
    /\ cluster_dists = <<>>
    /\ evald = {}
    /\ centers = <<>>
    /\ init_centers = <<>>
    /\ nthreads = 1
    /\ caller = "user"
    /\ clusters = <<>>
    /\ clusters0 = <<>>
    /\ wpc = <<>>
    /\ wmin = <<>>
    /\ changed = 0
    /\ ret = 0
    /\ dist_calls = 0
    /\ iteration = 0
    /\ run = 1
    /\ first = <<>>

\* the engine is given l2_dist
KmeansInit == KmeansNew("l2_dist")

\* Uniform::from(0..n_data) panics on an empty range (low >= high).
UniformRangeEmpty(n) == n = 0

\* Lines 38-46: the call, up to the construction of the uniform distribution.
InitRandomStart ==
    /\ pc = "start"
    /\ pc' = IF UniformRangeEmpty(n_data) THEN "panicked" ELSE "sampling"
    /\ UNCHANGED <<dataset, n_restarts, n_centers, center_c, cluster_dists,
                   evald, centers, init_centers, nthreads, caller, clusters,
                   clusters0, wpc, wmin, changed, ret, dist_calls, iteration,
                   run, first>>
    /\ UNCHANGED <<metric, nonkmeans>>

\* the sampling loops have pushed every center of every restart
SamplingDone ==
    /\ Len(center_c) = n_restarts
    /\ \A r \in 1..Len(center_c) : Len(center_c[r]) = n_centers

\* Lines 48-54: one rng.sample(uniform_dist), pushed to the restart being
\* filled; a new restart's vector is pushed when the last one is full.
Sample ==
    /\ pc = "sampling"
    /\ ~SamplingDone
    /\ \E s \in 1..n_data :
         LET cc == IF center_c = <<>> \/ Len(center_c[Len(center_c)]) = n_centers
                   THEN Append(center_c, <<>>)
                   ELSE center_c
             r == Len(cc)
         IN  center_c' = IF n_centers = 0 THEN cc
                         ELSE [cc EXCEPT ![r] = Append(cc[r], s)]
    /\ UNCHANGED <<dataset, n_restarts, n_centers, pc, cluster_dists, evald,
                   centers, init_centers, nthreads, caller, clusters, clusters0,
                   wpc, wmin, changed, ret, dist_calls, iteration, run, first>>
    /\ UNCHANGED <<metric, nonkmeans>>

\* Lines 57-59: the vector of averages is allocated and the tasks are spawned.
SpawnEval ==
    /\ pc = "sampling"
    /\ SamplingDone
    /\ cluster_dists' = Vec(0, n_restarts)
    /\ evald' = {}
    /\ pc' = "evaluating"
    /\ UNCHANGED <<dataset, n_restarts, n_centers, center_c, centers,
                   init_centers, nthreads, caller, clusters, clusters0, wpc,
                   wmin, changed, ret, dist_calls, iteration, run, first>>
    /\ UNCHANGED <<metric, nonkmeans>>

RECURSIVE RowDist(_, _, _)
\* Lines 69-76, the inner loop from j on: distances[i] += dist for j /= i
RowDist(cs, i, j) ==
    IF j > Len(cs) THEN 0
    ELSE F32Add(IF j = i THEN 0 ELSE dist_func(dataset[cs[i]], dataset[cs[j]]),
                RowDist(cs, i, j + 1))

RECURSIVE TotalDist(_, _)
\* Lines 68-78, the outer loop from i on: sum += distances[i]
TotalDist(cs, i) ==
    IF i > Len(cs) THEN 0
    ELSE F32Add(RowDist(cs, i, 1), TotalDist(cs, i + 1))

\* Lines 66-75: count += 1 once per ordered pair of distinct positions
PairCount(k) == k * (k - 1)

\* Lines 65-79: the value a restart's task writes to its slot
TrialAverage(cs) == F32Div(TotalDist(cs, 1), PairCount(Len(cs)))

\* Lines 59-80: the task of restart r; the tasks run in any order.
EvalTrial(r) ==
    /\ pc = "evaluating"
    /\ r \in (1..n_restarts) \ evald
    /\ cluster_dists' = [cluster_dists EXCEPT ![r] = TrialAverage(center_c[r])]
    /\ evald' = evald \cup {r}
    /\ UNCHANGED <<dataset, n_restarts, n_centers, pc, center_c, centers,
                   init_centers, nthreads, caller, clusters, clusters0, wpc,
                   wmin, changed, ret, dist_calls, iteration, run, first>>
    /\ UNCHANGED <<metric, nonkmeans>>

\* the index of the least spread restart
min_spread_cluster(cd) == MinBy(cd)

\* Lines 84-89: the index of the restart that is kept
max_cluster(cd) == MaxBy(cd)

\* Lines 84-96: every task has run; the maximum is taken (unwrap panics when
\* there is no restart) and that restart's centers are cloned into the engine.
InitSelect ==
    /\ pc = "evaluating"
    /\ evald = 1..n_restarts
    /\ IF n_restarts = 0
       THEN /\ pc' = "panicked"
            /\ UNCHANGED <<centers, init_centers>>
       ELSE LET m == max_cluster(cluster_dists) + 1
                cl == [c \in 1..Len(center_c[m]) |-> dataset[center_c[m][c]]]
            IN  /\ centers' = cl
                /\ init_centers' = cl
                /\ pc' = "ready"
    /\ UNCHANGED <<dataset, n_restarts, n_centers, center_c, cluster_dists,
                   evald, nthreads, caller, clusters, clusters0, wpc, wmin,
                   changed, ret, dist_calls, iteration, run, first>>
    /\ UNCHANGED <<metric, nonkmeans>>

\* ------------------------------------------------------------------ predict
\* a length check that only rejects a buffer longer than the dataset
LenLonger(buf, data) == Len(buf) > Len(data)

\* Line 109: clusters.len() != dataset.len()
LenMismatch(buf, data) == Len(buf) # Len(data)

\* Lines 109-117: predict is entered with the buffer buf; it panics on a
\* length mismatch, and otherwise one task per buffer index is handed to rayon.
PredictEnter(buf) ==
    /\ clusters0' = buf
    /\ changed' = 0
    /\ dist_calls' = 0
    /\ wmin' = Vec(0, Len(buf))
    /\ IF LenMismatch(buf, dataset)
       THEN /\ pc' = "panicked"
            /\ wpc' = <<>>
       ELSE /\ pc' = "predict"
            /\ wpc' = Vec("todo", Len(buf))

\* the assignment buffers a caller of predict may pass in: of the dataset's
\* length, all 0, all 1 and the two alternations of 0 and 1; one too short;
\* one too long
UserBuffers ==
    {[i \in 1..n_data |-> (i + b) % 2] : b \in {0, 1}}
    \cup {Vec(0, n_data), Vec(1, n_data), Vec(0, n_data - 1), Vec(0, n_data + 1)}

\* A caller holding the engine calls predict on the dataset with a buffer of
\* its own.
CallPredict ==
    /\ pc = "ready"
    /\ \E buf \in UserBuffers :
         /\ clusters' = buf
         /\ PredictEnter(buf)
    /\ \E t \in 1..MaxThreads : nthreads' = t
    /\ caller' = "user"
    /\ center_c' = <<>>
    /\ cluster_dists' = <<>>
    /\ evald' = {}
    /\ UNCHANGED <<dataset, n_restarts, n_centers, centers, init_centers, ret,
                   iteration, run, first>>
    /\ UNCHANGED <<metric, nonkmeans>>

\* Lines 122-127: the distances of point i to every center
Variance(i) == [k \in 1..Len(centers) |-> dist_func(dataset[i], centers[k])]

RECURSIVE LastMinFrom(_, _, _)
\* a fold that lets a later element replace the kept one unless it is Greater
LastMinFrom(v, best, i) ==
    IF i > Len(v) THEN best
    ELSE IF CmpOrEqual(v[i], v[best]) = "Greater" THEN LastMinFrom(v, best, i + 1)
    ELSE LastMinFrom(v, i, i + 1)

\* the nearest center with ties going to the highest index
min_cluster_last(i) ==
    IF Len(centers) = 0 THEN "None" ELSE LastMinFrom(Variance(i), 1, 2) - 1

\* Lines 129-134: the index of the nearest center
min_cluster(i) == MinBy(Variance(i))

\* a comparison that counts every index as changed
IsChangeAlways(m, curr) == TRUE

\* Line 136: min_cluster != curr_cluster
IsChange(m, curr) == m # curr

\* the tasks that have computed their result and not yet stored it
InFlight == {j \in 1..Len(wpc) : wpc[j] = "counted"}

\* an increment done as a separate load and store: it is lost when another
\* task is between its own count and its store
FetchAddLost(c) == IF InFlight # {} THEN c ELSE c + 1

\* Line 137: AtomicCell::fetch_add(1), one indivisible read-modify-write
FetchAdd(c) == c + 1

\* Lines 120-138: the task of index i reads its slot, measures the point
\* against every center, takes the nearest (unwrap panics when there is no
\* center) and counts a change.
WorkerCompute(i) ==
    /\ pc = "predict"
    /\ i \in 1..Len(wpc)
    /\ wpc[i] = "todo"
    /\ Cardinality(InFlight) < nthreads
    /\ IF Len(centers) = 0
       THEN /\ pc' = "panicked"
            /\ UNCHANGED <<wpc, wmin, changed, dist_calls>>
       ELSE LET curr_cluster == clusters[i]
                m == min_cluster(i)
            IN  /\ changed' = IF IsChange(m, curr_cluster) THEN FetchAdd(changed)
                              ELSE changed
                /\ wmin' = [wmin EXCEPT ![i] = m]
                /\ wpc' = [wpc EXCEPT ![i] = "counted"]
                /\ dist_calls' = dist_calls + Len(centers)
                /\ pc' = pc
    /\ UNCHANGED <<dataset, n_restarts, n_centers, center_c, cluster_dists,
                   evald, centers, init_centers, nthreads, caller, clusters,
                   clusters0, ret, iteration, run, first>>
    /\ UNCHANGED <<metric, nonkmeans>>

\* Line 140: the task of index i writes its own slot.
WorkerStore(i) ==
    /\ pc = "predict"
    /\ i \in 1..Len(wpc)
    /\ wpc[i] = "counted"
    /\ clusters' = [clusters EXCEPT ![i] = wmin[i]]
    /\ wpc' = [wpc EXCEPT ![i] = "done"]
    /\ UNCHANGED <<dataset, n_restarts, n_centers, pc, center_c, cluster_dists,
                   evald, centers, init_centers, nthreads, caller, clusters0,
                   wmin, changed, ret, dist_calls, iteration, run, first>>
    /\ UNCHANGED <<metric, nonkmeans>>

\* a for_each that returns once every task has computed, stored or not
ForEachComputed == \A i \in 1..Len(wpc) : wpc[i] # "todo"

\* Lines 119-142: for_each returns when every task has run to its end
ForEachDone == \A i \in 1..Len(wpc) : wpc[i] = "done"

\* Line 144: every task has finished; the counter is loaded and returned.
PredictReturn ==
    /\ pc = "predict"
    /\ ForEachDone
    /\ ret' = changed
    /\ pc' = IF caller = "fit" THEN "fit_predicted" ELSE "predict_done"
    /\ UNCHANGED <<dataset, n_restarts, n_centers, center_c, cluster_dists,
                   evald, centers, init_centers, nthreads, caller, clusters,
                   clusters0, wpc, wmin, changed, dist_calls, iteration, run,
                   first>>
    /\ UNCHANGED <<metric, nonkmeans>>

\* The caller repeats the call on the same dataset, centers and initial
\* buffer, under any number of workers; the first outcome is kept.
Rerun ==
    /\ pc = "predict_done"
    /\ run = 1
    /\ run' = 2
    /\ first' = [clusters |-> clusters, ret |-> ret, nthreads |-> nthreads]
    /\ clusters' = clusters0
    /\ PredictEnter(clusters0)
    /\ \E t \in 1..MaxThreads : nthreads' = t
    /\ UNCHANGED <<dataset, n_restarts, n_centers, center_c, cluster_dists,
                   evald, centers, init_centers, caller, ret, iteration>>
    /\ UNCHANGED <<metric, nonkmeans>>

\* ---------------------------------------------------------------------- fit
\* static EPSILON: f32 = 0.005, as the fraction EpsilonNum / EpsilonDen
EpsilonNum == 5
EpsilonDen == 1000

\* Lines 152-167: fit is called on the engine; every assignment starts at 0.
FitStart ==
    /\ pc = "ready"
    /\ pc' = "fit_loop"
    /\ caller' = "fit"
    /\ clusters' = Vec(0, n_data)
    /\ iteration' = 0
    /\ \E t \in 1..MaxThreads : nthreads' = t
    /\ center_c' = <<>>
    /\ cluster_dists' = <<>>
    /\ evald' = {}
    /\ UNCHANGED <<dataset, n_restarts, n_centers, centers, init_centers,
                   clusters0, wpc, wmin, changed, ret, dist_calls, run, first>>
    /\ UNCHANGED <<metric, nonkmeans>>

\* Line 171: the loop body begins with the call of predict on fit's buffer.
FitPredict ==
    /\ pc = "fit_loop"
    /\ iteration < MaxIter
    /\ PredictEnter(clusters)
    /\ UNCHANGED <<dataset, n_restarts, n_centers, center_c, cluster_dists,
                   evald, centers, init_centers, nthreads, caller, clusters,
                   ret, iteration, run, first>>
    /\ UNCHANGED <<metric, nonkmeans>>

RECURSIVE ElemCounter(_, _)
\* Lines 176-177, the loop from i on: cluster_elem_counter[clusters[i]] += 1.0
\* for the cluster c
ElemCounter(c, i) ==
    IF i > n_data THEN 0
    ELSE (IF clusters[i] = c THEN 1 ELSE 0) + ElemCounter(c, i + 1)

RECURSIVE ProbMass(_, _, _)
\* Lines 176-181, the loop from i on: cluster_prob_mass[clusters[i]][j] +=
\* dataset[i][j] for the cluster c and the bin j
ProbMass(c, j, i) ==
    IF i > n_data THEN 0
    ELSE (IF clusters[i] = c THEN dataset[i][j] ELSE 0) + ProbMass(c, j, i + 1)

\* the division without the guard
MeanBinNoGuard(mass, count) == F32Div(mass, count)

\* Lines 187-190: a bin with positive mass is divided by the cluster's count
MeanBin(mass, count) == IF mass > 0 THEN F32Div(mass, count) ELSE mass

\* Lines 185-193: the new center of cluster c
NewCenter(c) ==
    [j \in 1..Len(dataset[1]) |-> MeanBin(ProbMass(c, j, 1), ElemCounter(c, 1))]

\* Lines 173-193: the masses and counts are accumulated over the dataset (an
\* assignment outside 0..k-1 is an index out of bounds) and every center is
\* replaced by its cluster's mean.
FitUpdate ==
    /\ pc = "fit_predicted"
    /\ IF \E i \in 1..n_data : clusters[i] \notin 0..(Len(centers) - 1)
       THEN /\ pc' = "panicked"
            /\ centers' = centers
       ELSE /\ pc' = "fit_updated"
            /\ centers' = [c \in 1..Len(centers) |-> NewCenter(c - 1)]
    /\ UNCHANGED <<dataset, n_restarts, n_centers, center_c, cluster_dists,
                   evald, init_centers, nthreads, caller, clusters, clusters0,
                   wpc, wmin, changed, ret, dist_calls, iteration, run, first>>
    /\ UNCHANGED <<metric, nonkmeans>>

\* the test against a threshold of 1
ConvergedAtOne(ch, n) == ch <= n

\* Lines 196 and 200: accuracy = changed / n_data, and accuracy <= EPSILON
Converged(ch, n) == ch * EpsilonDen <= EpsilonNum * n

\* Lines 196-207: the iteration is counted; the loop is left, and the buffer
\* returned, when the share of changed assignments is at most EPSILON.
FitCheck ==
    /\ pc = "fit_updated"
    /\ iteration' = iteration + 1
    /\ pc' = IF Converged(ret, n_data) THEN "fit_done" ELSE "fit_loop"
    /\ UNCHANGED <<dataset, n_restarts, n_centers, center_c, cluster_dists,
                   evald, centers, init_centers, nthreads, caller, clusters,
                   clusters0, wpc, wmin, changed, ret, dist_calls, run, first>>
    /\ UNCHANGED <<metric, nonkmeans>>

KmeansNext ==
    \/ InitRandomStart
    \/ Sample
    \/ SpawnEval
    \/ \E r \in 1..MaxDraws : EvalTrial(r)
    \/ InitSelect
    \/ CallPredict
    \/ \E i \in 1..MaxData : WorkerCompute(i)
    \/ \E i \in 1..MaxData : WorkerStore(i)
    \/ PredictReturn
    \/ Rerun
    \/ FitStart
    \/ FitPredict
    \/ FitUpdate
    \/ FitCheck

\* -------------------------------------------------------------------- arena
\* the payloads given to nodes
Payloads == {"a", "b"}

\* the NodeIds handed to the arena's operations; one that is not below the
\* arena's length is out of bounds
NodeIds == 0..(MaxNodes - 1)

\* Option<NodeId>: None is the empty sequence, Some(p) is <<p>>
None == <<>>
Some(p) == <<p>>

\* Node::new: no parent, no children
NodeNew(d) == [data |-> d, parent |-> None, children |-> <<>>]

\* the engine before init_random is called, while the arena is exercised
KmeansIdle ==
    /\ metric = "l2_dist"
    /\ dataset = <<>>
    /\ n_restarts = 0
    /\ n_centers = 0
    /\ pc = "start"
    /\ center_c = <<>>
    /\ cluster_dists = <<>>
    /\ evald = {}
    /\ centers = <<>>
    /\ init_centers = <<>>
    /\ nthreads = 1
    /\ caller = "user"
    /\ clusters = <<>>
    /\ clusters0 = <<>>
    /\ wpc = <<>>
    /\ wmin = <<>>
    /\ changed = 0
    /\ ret = 0
    /\ dist_calls = 0
    /\ iteration = 0
    /\ run = 1
    /\ first = <<>>

\* gen_ehs has not started a stage
EhsIdle ==
    /\ batch_size = 0
    /\ size_per_thread = 0
    /\ equity_table = <<>>
    /\ spawned = 0
    /\ kpos = <<>>
    /\ oracle = <<>>
    /\ epc = "idle"
    /\ file = <<>>

\* no traversal has been created
NoTraversal ==
    /\ frames = <<>>
    /\ gpc = "none"
    /\ yielded = <<>>
    /\ visited = <<>>
    /\ reads = <<>>

\* Arena::new: no nodes
ArenaNew ==
    /\ nodes = <<>>
    /\ apc = "running"
    /\ returned = <<>>
    /\ written = <<>>
    /\ got = None

RECURSIVE LinkCount(_, _)
\* the parent and child links held by the nodes from position i on
LinkCount(ns, i) ==
    IF i > Len(ns) THEN 0
    ELSE Len(ns[i].parent) + Len(ns[i].children) + LinkCount(ns, i + 1)

\* the length taken after the push
NewIndexAfterPush(ns) == Len(ns) + 1

\* Line 47: the index create_node returns
NewIndex(ns) == Len(ns)

\* Lines 46-51: create_node(data) pushes a fresh node and returns its index.
\* It takes the arena by &mut, so it is called only while no node is borrowed.
CreateNode(d) ==
    /\ apc = "running"
    /\ got = None
    /\ Len(nodes) < MaxNodes
    /\ returned' = Append(returned, NewIndex(nodes))
    /\ nodes' = Append(nodes, NodeNew(d))
    /\ written' = Append(written, d)
    /\ got' = None
    /\ UNCHANGED apc
    /\ UNCHANGED nonarena

\* Line 53: self.nodes[idx] panics when idx is not below the length
OutOfBounds(ns, idx) == idx >= Len(ns)

\* the accessor call that panicked: its argument, and nothing borrowed
Failed(idx) == [id |-> idx, node |-> None]

\* Lines 52-54 and 32-34: get_node_mut(idx).set_parent(parent)
SetParent(idx, parent) ==
    /\ apc = "running"
    /\ got = None
    /\ IF OutOfBounds(nodes, idx)
       THEN /\ apc' = "panicked"
            /\ nodes' = nodes
            /\ got' = Failed(idx)
       ELSE /\ nodes[idx + 1].parent # None \/ LinkCount(nodes, 1) < MaxLinks
            /\ apc' = apc
            /\ nodes' = [nodes EXCEPT ![idx + 1].parent = Some(parent)]
            /\ got' = None
    /\ UNCHANGED <<returned, written>>
    /\ UNCHANGED nonarena

\* Lines 52-54 and 35-37: get_node_mut(idx).add_child(child)
AddChild(idx, child) ==
    /\ apc = "running"
    /\ got = None
    /\ IF OutOfBounds(nodes, idx)
       THEN /\ apc' = "panicked"
            /\ nodes' = nodes
            /\ got' = Failed(idx)
       ELSE /\ LinkCount(nodes, 1) < MaxLinks
            /\ apc' = apc
            /\ nodes' = [nodes EXCEPT
                           ![idx + 1].children = Append(@, child)]
            /\ got' = None
    /\ UNCHANGED <<returned, written>>
    /\ UNCHANGED nonarena

\* Lines 52-54 and 21: get_node_mut(idx).data = d
SetData(idx, d) ==
    /\ apc = "running"
    /\ got = None
    /\ IF OutOfBounds(nodes, idx)
       THEN /\ apc' = "panicked"
            /\ got' = Failed(idx)
            /\ UNCHANGED <<nodes, written>>
       ELSE /\ apc' = apc
            /\ nodes' = [nodes EXCEPT ![idx + 1].data = d]
            /\ written' = [written EXCEPT ![idx + 1] = d]
            /\ got' = None
    /\ UNCHANGED returned
    /\ UNCHANGED nonarena

\* the slot after the one asked for, wrapping at the end
IndexNext(ns, idx) == ns[((idx + 1) % Len(ns)) + 1]

\* Line 56: &self.nodes[idx], for idx below the length
Index(ns, idx) == ns[idx + 1]

\* Lines 55-57: get_node(idx) borrows the node at idx, or panics.
GetNode(idx) ==
    /\ apc = "running"
    /\ got = None
    /\ IF OutOfBounds(nodes, idx)
       THEN /\ apc' = "panicked"
            /\ got' = Failed(idx)
       ELSE /\ apc' = apc
            /\ got' = [id |-> idx, node |-> Some(Index(nodes, idx))]
    /\ UNCHANGED <<nodes, returned, written>>
    /\ UNCHANGED nonarena

\* Line 55: the borrow get_node returned ends (the lifetime of &self).
DropBorrow ==
    /\ apc = "running"
    /\ got # None
    /\ got' = None
    /\ UNCHANGED <<nodes, apc, returned, written>>
    /\ UNCHANGED nonarena

ArenaInit == KmeansIdle /\ ArenaNew /\ NoTraversal /\ EhsIdle

ArenaNext ==
    \/ \E d \in Payloads : CreateNode(d)
    \/ \E idx \in NodeIds, parent \in NodeIds : SetParent(idx, parent)
    \/ \E idx \in NodeIds, child \in NodeIds : AddChild(idx, child)
    \/ \E idx \in NodeIds, d \in Payloads : SetData(idx, d)
    \/ \E idx \in NodeIds : GetNode(idx)
    \/ DropBorrow

SpecArena == ArenaInit /\ [][ArenaNext]_vars

\* ---------------------------------------------------------------- generator
\* the payloads of the nodes of a traversed arena, by NodeId
Labels == <<"R", "A", "B", "C", "D", "E", "F", "G">>

RECURSIVE SeqsOfLen(_, _)
\* the vectors of n NodeIds taken from ids
SeqsOfLen(ids, n) ==
    IF n = 0 THEN {<<>>}
    ELSE {Append(q, x) : q \in SeqsOfLen(ids, n - 1), x \in ids}

RECURSIVE LenVecs(_, _)
\* the ways to give n nodes children counts that add up to at most e
LenVecs(n, e) ==
    IF n = 0 THEN {<<>>}
    ELSE UNION {{Append(lv, k) : lv \in LenVecs(n - 1, e - k)} : k \in 0..e}

RECURSIVE SumTo(_, _)
\* the sum of the first p entries of lv
SumTo(lv, p) == IF p = 0 THEN 0 ELSE lv[p] + SumTo(lv, p - 1)

\* An arena of MaxTreeNodes nodes created with the payloads of Labels, whose
\* node p was given by add_child the next lv[p] NodeIds of flat.  The
\* traversal never reads a parent, so no set_parent call is made.
TreeArena(lv, flat) ==
    [p \in 1..MaxTreeNodes |->
        [data |-> Labels[p], parent |-> None,
         children |-> SubSeq(flat, SumTo(lv, p - 1) + 1, SumTo(lv, p))]]

\* the NodeIds handed to add_child for such an arena: those of its nodes and
\* the first one out of bounds
ChildIds == 0..MaxTreeNodes

\* n.children of the node with NodeId id (none when id is out of bounds)
Children(id) == IF OutOfBounds(nodes, id) THEN <<>> ELSE Index(nodes, id).children

RECURSIVE ReachFrom(_, _)
\* the NodeIds reachable over child links from the set todo, given those seen
ReachFrom(todo, seen) ==
    IF todo = {} THEN seen
    ELSE LET x == CHOOSE y \in todo : TRUE
             next == {Children(x)[k] : k \in 1..Len(Children(x))}
         IN  ReachFrom((todo \cup next) \ (seen \cup {x}), seen \cup {x})

\* the NodeIds of the subtree rooted at id
Subtree(id) == ReachFrom({id}, {})

\* a generator that borrows its node when it is created
CreationReadsNode(id) == <<id>>

\* Lines 59-60: the NodeIds generator(id) passes to get_node before the
\* generator is resumed: none, the body of the closure has not run
CreationReads(id) == <<>>

\* Line 60: a generator that was created and not resumed yet
Frame(id) == [node |-> id, at |-> "unresumed", i |-> 0]

\* Lines 59-60: the state after arena.generator(start) on an arena built
\* before: nothing has run.  Nodes outside the subtree of start have no
\* children (the traversal reads none of them).
TraversalInit ==
    /\ KmeansIdle
    /\ EhsIdle
    /\ \E lv \in LenVecs(MaxTreeNodes, MaxEdges) :
         \E flat \in SeqsOfLen(ChildIds, SumTo(lv, MaxTreeNodes)) :
             nodes = TreeArena(lv, flat)
    /\ apc = "running"
    /\ returned = [p \in 1..MaxTreeNodes |-> p - 1]
    /\ written = [p \in 1..MaxTreeNodes |-> Labels[p]]
    /\ got = None
    /\ \E start \in 0..MaxTreeNodes :
         /\ LET sub == Subtree(start)
            IN  \A id \in 0..(MaxTreeNodes - 1) :
                    Children(id) # <<>> => id \in sub
         /\ frames = <<Frame(start)>>
         /\ reads = CreationReads(start)
    /\ gpc = "created"
    /\ yielded = <<>>
    /\ visited = <<>>

\* the most frames followed: one more than any tree on the nodes needs
MaxFrames == MaxTreeNodes + 1

\* the caller resumes the generator, or a resume is under way
Resumable == gpc \in {"created", "suspended", "running"}

\* the innermost live frame
Top == frames[Len(frames)]

\* Lines 61-62, the first resume of a frame: it borrows its node (a panic when
\* the NodeId is out of bounds) and yields the payload, which every enclosing
\* frame yields on (line 67) to the caller.
Enter ==
    /\ Resumable
    /\ Top.at = "unresumed"
    /\ reads' = Append(reads, Top.node)
    /\ IF OutOfBounds(nodes, Top.node)
       THEN /\ gpc' = "panicked"
            /\ UNCHANGED <<frames, yielded, visited>>
       ELSE /\ yielded' = Append(yielded, Index(nodes, Top.node).data)
            /\ visited' = Append(visited, Top.node)
            /\ frames' = [frames EXCEPT ![Len(frames)].at = "loop"]
            /\ gpc' = "suspended"
    /\ UNCHANGED nontraversal

RECURSIVE SubgenFramesAll(_, _)
\* a generator boxed for every remaining child at once, the next child's last
SubgenFramesAll(ch, i) ==
    IF i >= Len(ch) THEN <<>>
    ELSE Append(SubgenFramesAll(ch, i + 1), Frame(ch[i + 1]))

\* a generator boxed for the children taken from the last one backwards
SubgenFramesReversed(ch, i) == <<Frame(ch[Len(ch) - i])>>

\* Line 64: self.generator(*i) for the child after the i drained ones
SubgenFrames(ch, i) == <<Frame(ch[i + 1])>>

\* Lines 63-66: the frame resumed in its loop takes its next child, boxes a
\* generator for it and resumes that.
Descend ==
    /\ Resumable
    /\ Top.at = "loop"
    /\ Top.i < Len(Children(Top.node))
    /\ Len(frames) < MaxFrames
    /\ frames' = frames \o SubgenFrames(Children(Top.node), Top.i)
    /\ reads' = reads \o CreationReads(Children(Top.node)[Top.i + 1])
    /\ gpc' = "running"
    /\ UNCHANGED <<yielded, visited>>
    /\ UNCHANGED nontraversal

\* Lines 68-71: the frames left when the innermost one completes: it is
\* dropped, and the enclosing loop moves to its next child.
Drained(fs) ==
    LET rest == SubSeq(fs, 1, Len(fs) - 1)
    IN  IF rest = <<>> THEN rest
        ELSE [rest EXCEPT ![Len(rest)].i = @ + 1]

\* Lines 63 and 68-72: the frame resumed in its loop has no child left and
\* returns; the generator is complete when it was the outermost.
Return ==
    /\ Resumable
    /\ Top.at = "loop"
    /\ Top.i >= Len(Children(Top.node))
    /\ frames' = Drained(frames)
    /\ gpc' = IF Len(frames) = 1 THEN "complete" ELSE "running"
    /\ UNCHANGED <<yielded, visited, reads>>
    /\ UNCHANGED nontraversal

TraversalNext ==
    \/ Enter
    \/ Descend
    \/ Return

SpecTraversal == TraversalInit /\ [][TraversalNext]_vars

\* ------------------------------------------------------------------ gen_ehs
\* const N_THREADS: u64 = 8
N_THREADS == 8

\* Line 41: a stage begins with the size the indexer reports.
EhsInit ==
    /\ batch_size \in 0..MaxBatch
    /\ size_per_thread = 0
    /\ equity_table = <<>>
    /\ spawned = 0
    /\ kpos = <<>>
    /\ oracle = <<>>
    /\ epc = "start"
    /\ file = <<>>

\* Lines 44-50: the chunk size is computed, the table is allocated and
\* chunks_mut is called, which panics on a chunk size of 0.
StageStart ==
    /\ epc = "start"
    /\ size_per_thread' = batch_size \div N_THREADS
    /\ equity_table' = Vec(0, batch_size)
    /\ oracle' = Vec(<<>>, batch_size)
    /\ epc' = IF size_per_thread' = 0 THEN "panicked" ELSE "spawning"
    /\ UNCHANGED <<batch_size, spawned, kpos, file>>
    /\ UNCHANGED nonehs

\* chunks_mut(c) of n slots: the number of chunks, the last one shorter when
\* c does not divide n
ChunkCount(n, c) == (n + c - 1) \div c

\* the first table position (from 0) of chunk j
ChunkStart(j, c) == j * c

\* slice.len() of chunk j
SliceLen(j, n, c) == IF (j + 1) * c <= n THEN c ELSE n - j * c

\* Lines 49-53: the loop takes the next chunk and spawns its thread, while
\* the threads spawned before run.
Spawn ==
    /\ epc = "spawning"
    /\ spawned < ChunkCount(batch_size, size_per_thread)
    /\ spawned' = spawned + 1
    /\ kpos' = Append(kpos, 0)
    /\ UNCHANGED <<batch_size, size_per_thread, equity_table, oracle, epc, file>>
    /\ UNCHANGED nonehs

\* Line 67: the index handed to get_hand by thread j at k
HandIndex(j, k) == (j * size_per_thread) + k

\* Lines 88 and 92: the oracle's estimate for the hand of index h (any value
\* that tells the hands apart and is not the table's initial 0)
approx_equity(h) == h + 1

\* Lines 58-94: one turn of the loop of thread j: the hand of its index is
\* decoded, the equity computed and stored at slice[k].
Compute(j) ==
    /\ epc = "spawning"
    /\ j < spawned
    /\ kpos[j + 1] < SliceLen(j, batch_size, size_per_thread)
    /\ LET k == kpos[j + 1]
           h == HandIndex(j, k)
           slot == ChunkStart(j, size_per_thread) + k
       IN  /\ equity_table' = [equity_table EXCEPT ![slot + 1] = approx_equity(h)]
           /\ oracle' = [oracle EXCEPT
                           ![slot + 1] = Append(@, [thread |-> j, hand |-> h])]
           /\ kpos' = [kpos EXCEPT ![j + 1] = k + 1]
    /\ UNCHANGED <<batch_size, size_per_thread, spawned, epc, file>>
    /\ UNCHANGED nonehs

\* Lines 97-98: the scope ends when every chunk has its thread and every
\* thread has finished its loop.
Join ==
    /\ epc = "spawning"
    /\ spawned = ChunkCount(batch_size, size_per_thread)
    /\ \A j \in 0..(spawned - 1) :
           kpos[j + 1] = SliceLen(j, batch_size, size_per_thread)
    /\ epc' = "joined"
    /\ UNCHANGED <<batch_size, size_per_thread, equity_table, spawned, kpos,
                   oracle, file>>
    /\ UNCHANGED nonehs

\* Line 101: the table is packed to the file.
WriteFile ==
    /\ epc = "joined"
    /\ file' = equity_table
    /\ epc' = "written"
    /\ UNCHANGED <<batch_size, size_per_thread, equity_table, spawned, kpos,
                   oracle>>
    /\ UNCHANGED nonehs

EhsNext ==
    \/ StageStart
    \/ Spawn
    \/ \E j \in 0..MaxBatch : Compute(j)
    \/ Join
    \/ WriteFile

EhsStageInit == KmeansIdle /\ ArenaNew /\ NoTraversal /\ EhsInit

SpecEhs == EhsStageInit /\ [][EhsNext]_vars

Init == KmeansInit /\ ArenaNew /\ NoTraversal /\ EhsIdle

Next == KmeansNext

Spec == Init /\ [][Next]_vars

\* the same calls on an engine that is given nan_dist
NanMetricInit == KmeansNew("nan_dist") /\ ArenaNew /\ NoTraversal /\ EhsIdle

SpecNanMetric == NanMetricInit /\ [][Next]_vars

\* ------------------------------------------------------------------ claims
RECURSIVE SumFn(_, _)
\* the sum of f over the finite set S
SumFn(f, S) ==
    IF S = {} THEN 0
    ELSE LET x == CHOOSE y \in S : TRUE
         IN  f[x] + SumFn(f, S \ {x})

\* predict has returned, to fit or to its caller
PredictReturned == pc \in {"predict_done", "fit_predicted"}

\* the distance of point i to the center of 0-based index c
DistTo(i, c) == dist_func(dataset[i], centers[c + 1])

\* C1: after predict returns, every point's assignment is a center index at
\* minimal distance from the point, and no center of lower index is at that
\* same distance.
C1_ArgminLowestIndex ==
    PredictReturned =>
        \A i \in 1..n_data :
            /\ clusters[i] \in 0..(Len(centers) - 1)
            /\ \A k \in 0..(Len(centers) - 1) : DistTo(i, clusters[i]) <= DistTo(i, k)
            /\ \A k \in 0..(clusters[i] - 1) : DistTo(i, k) > DistTo(i, clusters[i])

\* predict has returned with a point tied between two different centers, and
\* with some point assigned to a center other than 0
C1_Witness ==
    /\ pc = "predict_done"
    /\ \E i \in 1..n_data : \E k \in (clusters[i] + 1)..(Len(centers) - 1) :
           /\ DistTo(i, k) = DistTo(i, clusters[i])
           /\ centers[k + 1] # centers[clusters[i] + 1]
    /\ \E j \in 1..n_data : clusters[j] # 0

\* C2: predict returns exactly the number of indices whose assignment after
\* the call differs from the one before it, under every interleaving of the
\* tasks.
C2_ChangedCountExact ==
    PredictReturned =>
        ret = Cardinality({i \in 1..Len(clusters) : clusters[i] # clusters0[i]})

\* predict has returned under two workers with some assignments changed and
\* some kept
C2_Witness ==
    /\ pc = "predict_done"
    /\ nthreads >= 2
    /\ ret >= 2
    /\ ret < n_data

\* C3: predict never runs a task nor returns on a buffer whose length differs
\* from the dataset's: it panics, with the buffer as it was passed in and no
\* distance computed.
C3_MismatchPanics ==
    /\ pc \in {"predict", "predict_done", "fit_predicted"}
           => ~(Len(clusters0) # n_data)
    /\ (pc = "panicked" /\ Len(clusters0) # n_data)
           => (clusters = clusters0 /\ dist_calls = 0 /\ wpc = <<>>)

\* predict was called on an engine with centers with a buffer one shorter
\* than the dataset, and panicked
C3_Witness ==
    /\ pc = "panicked"
    /\ caller = "user"
    /\ Len(centers) >= 1
    /\ n_data >= 2
    /\ Len(clusters0) = n_data - 1

\* C4: a second run of predict on the same dataset, centers and initial
\* buffer ends with the same buffer and the same count as the first, whatever
\* the workers and the order of the indices.
C4_PredictDeterministic ==
    (pc = "predict_done" /\ run = 2) =>
        (clusters = first.clusters /\ ret = first.ret)

\* the second run has returned under another number of workers than the
\* first, with assignments changed
C4_Witness ==
    /\ pc = "predict_done"
    /\ run = 2
    /\ first.nthreads # nthreads
    /\ ret >= 1

\* the points assigned to the cluster of 0-based index c
Members(c) == {i \in 1..n_data : clusters[i] = c}

\* the mass of the cluster c in bin j
BinMass(c, j) == SumFn([i \in Members(c) |-> dataset[i][j]], Members(c))

\* C5: after fit has replaced the centers, every bin of every center times
\* the number of points assigned to the center is the sum of the bin over
\* these points, and a bin whose sum is zero is 0 (so a cluster without points
\* has an all-zero center).
C5_CentersAreMeans ==
    pc = "fit_updated" =>
        \A c \in 0..(Len(centers) - 1) : \A j \in 1..Len(dataset[1]) :
            IF BinMass(c, j) = 0
            THEN centers[c + 1][j] = 0
            ELSE centers[c + 1][j] * Cardinality(Members(c)) = BinMass(c, j)

\* the centers were replaced with one cluster empty, its center all zero,
\* and another holding several points
C5_Witness ==
    /\ pc = "fit_updated"
    /\ \E c \in 0..(Len(centers) - 1) :
           /\ Members(c) = {}
           /\ \A j \in 1..Len(dataset[1]) : centers[c + 1][j] = 0
    /\ \E c \in 0..(Len(centers) - 1) : Cardinality(Members(c)) >= 2

\* the two pairs are told apart
Grouped ==
    /\ clusters[1] = clusters[2]
    /\ clusters[3] = clusters[4]
    /\ clusters[1] # clusters[3]

\* fit was called on the two pairs with two centers
FitOnTwoPairs ==
    /\ dataset = TwoPairs
    /\ Len(init_centers) = 2
    /\ caller = "fit"

\* fit does not panic, is in its third iteration at the latest while it has
\* not returned, and returns the two pairs told apart
BoundedAndGrouped ==
    /\ pc # "panicked"
    /\ pc # "fit_done" => iteration < 3
    /\ pc = "fit_done" => (iteration <= 3 /\ Grouped)

\* C6, as claimed: on the two pairs with k = 2, fit started from any centers
\* init_random can produce ends within a bounded number of iterations with
\* the two pairs told apart.
C6_AnyInitConverges == FitOnTwoPairs => BoundedAndGrouped

\* C6, amended: the same, when the two centers init_random produced are
\* different histograms.
C6_DistinctInitConverges ==
    (FitOnTwoPairs /\ init_centers[1] # init_centers[2]) => BoundedAndGrouped

\* fit has returned the two pairs told apart after three iterations, from
\* two different centers
C6_Witness ==
    /\ FitOnTwoPairs
    /\ init_centers[1] # init_centers[2]
    /\ pc = "fit_done"
    /\ iteration = 3
    /\ Grouped

\* fit has finished an iteration's predict
FitIterated ==
    /\ caller = "fit"
    /\ \/ pc \in {"fit_predicted", "fit_updated", "fit_done"}
       \/ pc \in {"fit_loop", "predict"} /\ iteration >= 1

\* C7: after every iteration of fit, and at its return, the assignment has
\* the dataset's length and every value is in [0, k).
C7_AssignmentInRange ==
    FitIterated =>
        /\ Len(clusters) = n_data
        /\ \A i \in 1..Len(clusters) : clusters[i] \in 0..(Len(centers) - 1)

\* fit has returned after several iterations with a point in the last of
\* several clusters
C7_Witness ==
    /\ pc = "fit_done"
    /\ iteration >= 2
    /\ Len(centers) >= 2
    /\ \E i \in 1..Len(clusters) : clusters[i] = Len(centers) - 1

\* C8: init_random returns no engine when the dataset is empty or n_centers
\* exceeds the dataset size.
C8_InitRandomRejects ==
    (n_data = 0 \/ n_centers > n_data) =>
        pc \in {"start", "sampling", "evaluating", "panicked"}

\* the ordered pairs of distinct positions of a restart
Pairs == {p \in (1..n_centers) \X (1..n_centers) : p[1] # p[2]}

\* the sum of the distances over these pairs in restart r
PairSum(r) ==
    SumFn([p \in Pairs |-> dist_func(dataset[center_c[r][p[1]]],
                                     dataset[center_c[r][p[2]]])], Pairs)

\* the average pairwise distance of restart r
PairAverage(r) == F32Div(PairSum(r), Cardinality(Pairs))

\* the histograms restart r sampled
Candidates(r) == [c \in 1..Len(center_c[r]) |-> dataset[center_c[r][c]]]

\* C9: init_random returns n_centers centers, each a dataset histogram, which
\* are the candidates of a restart whose average pairwise distance no other
\* restart exceeds, in whatever order the restarts were evaluated.
C9_MostSpreadRestart ==
    pc = "ready" =>
        /\ Len(centers) = n_centers
        /\ \A c \in 1..Len(centers) : \E i \in 1..n_data : centers[c] = dataset[i]
        /\ \E r \in 1..n_restarts :
               /\ centers = Candidates(r)
               /\ \A q \in 1..n_restarts :
                      PartialCmp(PairAverage(q), PairAverage(r)) # "Greater"

\* init_random has returned the candidates of a restart that is not the last
\* and is more spread than the last
C9_Witness ==
    /\ pc = "ready"
    /\ n_restarts >= 2
    /\ \E r \in 1..(n_restarts - 1) :
           /\ centers = Candidates(r)
           /\ centers # Candidates(n_restarts)
           /\ PartialCmp(PairAverage(r), PairAverage(n_restarts)) = "Greater"

\* every NodeId returned so far is its call's number, is in bounds, and
\* addresses a node holding the payload last given for it
IdsStable ==
    /\ Len(returned) = Len(nodes)
    /\ \A n \in 1..Len(returned) :
           /\ returned[n] = n - 1
           /\ returned[n] < Len(nodes)
           /\ nodes[returned[n] + 1].data = written[n]

\* C10: the n-th create_node returns NodeId n; the arena never gets shorter;
\* every NodeId returned keeps addressing its node, whose payload changes only
\* through get_node_mut.
C10_IdsIncreaseAndStay ==
    /\ []IdsStable
    /\ [][Len(nodes') >= Len(nodes)]_vars

\* three nodes were created, the first was linked both ways and the second
\* holds another payload than the first
C10_Witness ==
    /\ returned = <<0, 1, 2>>
    /\ nodes[1].parent # None
    /\ nodes[1].children # <<>>
    /\ nodes[1].data # nodes[2].data

\* the parent and child NodeIds stored in the node at position n
StoredIds(n) ==
    {nodes[n].parent[k] : k \in 1..Len(nodes[n].parent)}
        \cup {nodes[n].children[k] : k \in 1..Len(nodes[n].children)}

\* C11: every parent and every child NodeId stored in a node of the arena is
\* smaller than the arena's length, after any sequence of create_node,
\* set_parent and add_child calls.
C11_NoDanglingId ==
    \A n \in 1..Len(nodes) : \A id \in StoredIds(n) : id < Len(nodes)

\* the last accessor call went through: nothing is borrowed, or the node
\* borrowed is the one the call of number got.id + 1 created
BorrowIsCreated ==
    (apc = "running" /\ got # None) =>
        /\ got.id < Len(nodes)
        /\ returned[got.id + 1] = got.id
        /\ got.node = Some(nodes[got.id + 1])
        /\ got.node[1].data = written[got.id + 1]

\* an accessor has panicked only on an id that is not below the length
PanicIsOutOfBounds ==
    apc = "panicked" => (got # None /\ got.id >= Len(nodes) /\ got.node = None)

\* C12: get_node and get_node_mut panic when the id is not below the arena's
\* length, and then leave the arena as it was; for a smaller id get_node
\* returns the node its create_node call created.
C12_AccessChecked ==
    /\ [](BorrowIsCreated /\ PanicIsOutOfBounds)
    /\ [][apc' = "panicked" => (nodes' = nodes /\ returned' = returned)]_vars

\* an accessor has panicked on the id one past the last node of an arena
\* whose nodes are linked
C12_Witness ==
    /\ apc = "panicked"
    /\ Len(nodes) >= 2
    /\ got.id = Len(nodes)
    /\ LinkCount(nodes, 1) >= 1

\* get_node has borrowed the second of three nodes, which differs from the
\* first
C12_Borrowed ==
    /\ apc = "running"
    /\ Len(nodes) = 3
    /\ got # None
    /\ got.id = 1
    /\ nodes[1] # nodes[2]

\* the node the traversal was started on
StartNode == IF reads = <<>> THEN frames[1].node ELSE reads[1]

\* the child slots (owner, position) of the nodes in sub that hold id
SlotsOf(id, sub) ==
    {sl \in sub \X (1..MaxEdges) :
        /\ sl[2] <= Len(Children(sl[1]))
        /\ Children(sl[1])[sl[2]] = id}

RECURSIVE SlotCount(_)
\* the child slots of the nodes in the set sub
SlotCount(sub) ==
    IF sub = {} THEN 0
    ELSE LET id == CHOOSE x \in sub : TRUE
         IN  Len(Children(id)) + SlotCount(sub \ {id})

\* the nodes reachable from root are a tree: every NodeId is in bounds and
\* the child slots are one fewer than the nodes (each node but the root is
\* reachable, so it is in a slot: then it is in exactly one, and the root in
\* none)
IsTree(root) ==
    LET sub == Subtree(root)
    IN  /\ \A id \in sub : ~OutOfBounds(nodes, id)
        /\ SlotCount(sub) = Cardinality(sub) - 1

\* the positions at which id was yielded
PosOf(id) == {k \in 1..Len(visited) : visited[k] = id}

\* no node was yielded twice
EachOnce == \A j, k \in 1..Len(visited) : visited[j] = visited[k] => j = k

\* a yielded node other than the start node comes after the node holding it
ParentFirst ==
    \A k \in 1..Len(visited) :
        visited[k] # StartNode =>
            \E j \in 1..(k - 1) : SlotsOf(visited[k], {visited[j]}) # {}

\* when a node of a child's subtree has been yielded, the subtree of every
\* child added before it to the same node has been yielded in full, earlier
SiblingsInOrder ==
    \A p \in 0..(MaxTreeNodes - 1) :
        \A a, b \in 1..Len(Children(p)) :
            a < b =>
                \A k \in 1..Len(visited) :
                    visited[k] \in Subtree(Children(p)[b]) =>
                        \A id \in Subtree(Children(p)[a]) :
                            \E j \in 1..(k - 1) : visited[j] = id

\* root R with children A, B in that order, and A with child C
ExampleTree ==
    /\ Children(0) = <<1, 2>>
    /\ Children(1) = <<3>>
    /\ Children(2) = <<>>
    /\ Children(3) = <<>>
    /\ StartNode = 0

\* C13: the traversal of a tree yields the payloads of the subtree of its
\* start node in pre-order: the payload of each node it visits, a node before
\* its descendants, the children in the order add_child added them, each
\* child's subtree in full before the next sibling; every node of the subtree
\* once it is complete; and R, A, C, B on the example.
C13_PreOrder ==
    IsTree(StartNode) =>
        /\ yielded = [k \in 1..Len(visited) |-> Index(nodes, visited[k]).data]
        /\ EachOnce
        /\ ParentFirst
        /\ SiblingsInOrder
        /\ gpc = "complete" =>
               {visited[k] : k \in 1..Len(visited)} = Subtree(StartNode)
        /\ (ExampleTree /\ gpc = "complete") => yielded = <<"R", "A", "C", "B">>

\* the traversal of the example tree is complete
C13_Witness ==
    /\ ExampleTree
    /\ gpc = "complete"
    /\ Len(yielded) = 4

\* the nodes the traversal has borrowed through get_node
ReadNodes == {reads[k] : k \in 1..Len(reads)} \ {id \in ChildIds : OutOfBounds(nodes, id)}

\* C14: the traversal has read through get_node only nodes it has yielded,
\* at every moment; when only the first value was drawn it has read the start
\* node alone.
C14_Lazy ==
    /\ ReadNodes \subseteq {visited[k] : k \in 1..Len(visited)}
    /\ Len(reads) <= Len(visited) + 1
    /\ (gpc = "suspended" /\ Len(yielded) = 1) => reads = <<StartNode>>

\* only the first value was drawn from the traversal of a node with two
\* children, the first of which has a child
C14_Witness ==
    /\ gpc = "suspended"
    /\ Len(yielded) = 1
    /\ Len(Children(StartNode)) = 2
    /\ Children(Children(StartNode)[1]) # <<>>
    /\ reads = <<StartNode>>

\* C18: a traversal yields no node twice (the links of an arena built by
\* create_node, set_parent and add_child calls have no cycle, so it ends
\* after each node of the subtree was yielded once).
C18_EachNodeOnce == EachOnce

RECURSIVE HeightFrom(_, _)
\* the links on the longest path down from id in a tree that goes through
\* one of its children from the k-th on (0 when there is none)
HeightFrom(id, k) ==
    IF k > Len(Children(id)) THEN 0
    ELSE LET here == 1 + HeightFrom(Children(id)[k], 1)
             rest == HeightFrom(id, k + 1)
         IN  IF here >= rest THEN here ELSE rest

\* the links on the longest path down from id in a tree
Height(id) == HeightFrom(id, 1)

\* the frames are one per node of a path down from the start node: each
\* frame is for the child its enclosing frame is draining
FramesArePath ==
    /\ frames # <<>> => frames[1].node = StartNode
    /\ \A k \in 1..(Len(frames) - 1) :
           /\ frames[k].i < Len(Children(frames[k].node))
           /\ frames[k + 1].node = Children(frames[k].node)[frames[k].i + 1]

\* C19: in the traversal of a tree the live frames are one per node of the
\* path from the start node to the node yielded last whenever the generator
\* is suspended, and a path down from the start node at every moment (so no
\* two frames are for siblings); they are never more than the depth plus one.
C19_FramesOnPath ==
    IsTree(StartNode) =>
        /\ FramesArePath
        /\ Len(frames) <= Height(StartNode) + 1
        /\ gpc = "suspended" => Top.node = visited[Len(visited)]

\* the traversal of the example tree is suspended at B: the frames of A and C
\* are gone
C19_Witness ==
    /\ ExampleTree
    /\ gpc = "suspended"
    /\ visited = <<0, 1, 3, 2>>
    /\ Len(frames) = 2

\* the traversal of a chain is suspended at its deepest node
C19_Deepest ==
    /\ IsTree(StartNode)
    /\ gpc = "suspended"
    /\ Len(frames) = 4

\* the stage has ended: the scope was left, or the program panicked
StageEnded == epc \in {"joined", "written", "panicked"}

\* the slot of index idx was computed once, from the hand of that index, and
\* holds that hand's equity
ComputedOnce(idx) ==
    /\ idx < Len(oracle)
    /\ Len(oracle[idx + 1]) = 1
    /\ oracle[idx + 1][1].hand = idx
    /\ equity_table[idx + 1] = approx_equity(idx)

\* C15: a stage of gen_ehs ends with every index in [0, batch_size) computed
\* exactly once, by one thread, from the hand decoded for that index, and
\* stored at that index, whatever batch_size is; no slot is computed twice
\* on the way.
C15_EachIndexOnce ==
    /\ \A s \in 1..Len(oracle) : Len(oracle[s]) <= 1
    /\ StageEnded => \A idx \in 0..(batch_size - 1) : ComputedOnce(idx)

\* the same, for stages of at least N_THREADS situations
C15_EachIndexOnceFromEight ==
    batch_size >= N_THREADS => C15_EachIndexOnce

\* a stage whose size is not a multiple of N_THREADS has been written, the
\* last slot by a thread beyond the first N_THREADS
C15_Remainder ==
    /\ epc = "written"
    /\ batch_size % N_THREADS # 0
    /\ size_per_thread >= 2
    /\ oracle[batch_size][1].thread = N_THREADS
    /\ file = [i \in 1..batch_size |-> approx_equity(i - 1)]

\* the count predict reported is at most 0.005 of the dataset (1 in 200)
WithinThreshold == ret * 200 <= n_data

\* every assignment is 0
AllZero == \A i \in 1..Len(clusters) : clusters[i] = 0

\* fit is entered with every assignment 0
FitStartsAtZero ==
    (pc = "ready" /\ pc' = "fit_loop") =>
        (Len(clusters') = n_data /\ \A i \in 1..n_data : clusters'[i] = 0)

\* fit returns only from the end of an iteration whose count is within the
\* threshold, and then it does return; otherwise the loop goes on
FitLeavesOnThreshold ==
    /\ pc' = "fit_done" =>
           (pc \in {"fit_updated", "fit_done"} /\ WithinThreshold)
    /\ pc = "fit_updated" =>
           /\ WithinThreshold => pc' = "fit_done"
           /\ ~WithinThreshold => pc' = "fit_loop"
    /\ pc = "fit_done" => (pc' = "fit_done" /\ clusters' = clusters)

\* a first predict that left every point in cluster 0 ends fit after one
\* iteration
FitOneIterationAtZero ==
    (pc = "fit_updated" /\ iteration = 0 /\ AllZero) =>
        (pc' = "fit_done" /\ iteration' = 1)

\* C16: fit starts from the all-zero assignment and returns at the end of the
\* first iteration whose predict reports at most 0.005 of the dataset changed,
\* not before and not after; the loop has no other way out; a first predict
\* that assigns every point to cluster 0 ends it after exactly one iteration.
C16_FitExit ==
    /\ [][FitStartsAtZero]_vars
    /\ [][FitLeavesOnThreshold]_vars
    /\ [][FitOneIterationAtZero]_vars
    /\ [](pc = "fit_done" => (WithinThreshold /\ iteration >= 1))

\* fit has returned after one iteration with every point of several in
\* cluster 0 of several
C16_Witness ==
    /\ pc = "fit_done"
    /\ iteration = 1
    /\ AllZero
    /\ n_data >= 2
    /\ Len(centers) >= 2

\* fit has returned after three iterations, the first two over the threshold
C16_LateReturn ==
    /\ pc = "fit_done"
    /\ iteration = 3
    /\ ~AllZero

\* the indices of the assignment buffer whose value a step changes
SlotsWritten ==
    {i \in 1..Len(clusters) : Len(clusters') # Len(clusters) \/ clusters'[i] # clusters[i]}

\* a predict task goes from one position to the next in this step
WorkerSteps ==
    \E i \in 1..Len(wpc) :
        /\ Len(wpc') = Len(wpc)
        /\ wpc[i] # "done"
        /\ wpc'[i] # wpc[i]

\* during predict nothing writes a center or a histogram, and a step that
\* writes the assignment buffer is the store of one task into its own index
PredictReadsOnly ==
    pc = "predict" =>
        /\ centers' = centers
        /\ dataset' = dataset
        /\ \A i \in SlotsWritten :
               /\ wpc[i] = "counted"
               /\ wpc' = [wpc EXCEPT ![i] = "done"]
               /\ SlotsWritten = {i}

\* within fit the centers are written between the return of one predict and
\* the start of the next: every task of the iteration has finished, none of
\* the next has started, and the write does not move a task
CentersWrittenBetween ==
    (caller = "fit" /\ centers' # centers) =>
        /\ pc = "fit_predicted"
        /\ ForEachDone
        /\ wpc' = wpc
        /\ iteration' = iteration

\* a task moves only during predict, and the tasks of the next iteration are
\* set out only after the centers of this one have been written
TasksOnlyInPredict ==
    /\ WorkerSteps => (pc = "predict" /\ centers' = centers)
    /\ (caller = "fit" /\ pc # "predict" /\ pc' = "predict") => pc = "fit_loop"
    /\ (pc = "fit_predicted" /\ pc' # pc) => pc' \in {"fit_updated", "panicked"}

\* C17: the two phases of a fit iteration are separated by a barrier. While
\* predict runs, no center and no histogram is written and every write to the
\* assignment buffer is a task's store into its own index; the centers of an
\* iteration are written after all its predict tasks have finished and before
\* any task of the next iteration starts.
C17_Barrier ==
    /\ [][PredictReadsOnly]_vars
    /\ [][CentersWrittenBetween]_vars
    /\ [][TasksOnlyInPredict]_vars
    /\ [](pc \in {"fit_predicted", "fit_updated", "fit_done"} => ForEachDone)

\* in the second iteration of a fit on several workers, one task has stored a
\* new assignment while another has computed and a third has not started, and
\* the centers are those written by the first iteration
C17_Witness ==
    /\ pc = "predict"
    /\ caller = "fit"
    /\ iteration = 1
    /\ nthreads >= 2
    /\ centers # init_centers
    /\ \E i, j, k \in 1..Len(wpc) :
           /\ wpc[i] = "done"
           /\ wpc[j] = "counted"
           /\ wpc[k] = "todo"
           /\ clusters[i] # 0

\* a distance of point i to a center is NaN
NanDistance(i) == \E k \in 1..Len(centers) : Variance(i)[k] = NaN

\* predict has not written, and is not returning with, an assignment for a
\* point that has a NaN distance
PredictNanFails ==
    pc \in {"predict", "predict_done", "fit_predicted"} =>
        \A i \in 1..Len(wpc) : wpc[i] = "done" => ~NanDistance(i)

\* init_random has not returned an engine when a trial's average is NaN
InitNanFails ==
    (pc = "ready" /\ cluster_dists # <<>>) =>
        \A r \in 1..Len(cluster_dists) : cluster_dists[r] # NaN

\* C20: when the metric returns NaN for a point and a center, predict (and so
\* fit) fails instead of completing and writing an assignment for the point,
\* and init_random fails instead of selecting a trial when a trial's average
\* distance is NaN.
C20_NanFailsFast == PredictNanFails /\ InitNanFails

\* fit has returned assignments although a distance of some point was NaN in
\* its last predict
C20_FitThroughNan ==
    /\ pc = "fit_done"
    /\ \E i \in 1..n_data : NanDistance(i)

=============================================================================
